---- MODULE Spec2Model ----
(***************************************************************************)
(* A model of lgit (src/lgit_3.0.py), a lightweight version-control tool.  *)
(* The persisted repository (.lgit/index, .lgit/objects, .lgit/commits,    *)
(* .lgit/snapshots, .lgit/config) and the working tree are the state; each *)
(* lgit command is one action, translated from its handler.  Text is kept  *)
(* as text: index lines are strings, cut by the same byte offsets and      *)
(* split on the same white space as the code does.                         *)
(*                                                                         *)
(* Every command runs with the repository root as its current directory.   *)
(***************************************************************************)
EXTENDS Integers, Sequences, FiniteSets, TLC

(***************************************************************************)
(* Bounds of the model.                                                    *)
(***************************************************************************)
\* number of working-tree edits (write, delete, chmod) in one behaviour
MaxEdits == 2
\* number of lgit commands in one behaviour
MaxCmds == 3

\* entries of an index dictionary that is saved and loaded on its own
MaxEntries == 2

(***************************************************************************)
(* Python string primitives.                                               *)
(***************************************************************************)
Min(a, b) == IF a < b THEN a ELSE b

\* the i-th character of s (1-based), as a one-character string
Char(s, i) == SubSeq(s, i, i)

\* s[i:j] for 0 <= i, 0 <= j
Slice(s, i, j) ==
    LET hi == Min(j, Len(s))
    IN  IF i >= hi THEN "" ELSE SubSeq(s, i + 1, hi)

\* s[i:]
SliceFrom(s, i) == Slice(s, i, Len(s))

\* s[:-1]
DropLast(s) == Slice(s, 0, Len(s) - 1)

\* s.startswith(pre)
StartsWith(s, pre) == Len(pre) <= Len(s) /\ Slice(s, 0, Len(pre)) = pre

\* s.endswith(suf)
EndsWith(s, suf) == Len(suf) <= Len(s) /\ SliceFrom(s, Len(s) - Len(suf)) = suf

\* sub in s
Contains(s, sub) ==
    \E i \in 0..(Len(s) - Len(sub)) : Slice(s, i, i + Len(sub)) = sub

\* s.replace(old, '') for a non-empty old
RECURSIVE Remove(_, _)
Remove(s, old) ==
    IF Len(s) < Len(old) THEN s
    ELSE IF Slice(s, 0, Len(old)) = old THEN Remove(SliceFrom(s, Len(old)), old)
    ELSE Char(s, 1) \o Remove(SliceFrom(s, 1), old)

\* s.strip('\n')
RECURSIVE StripNL(_)
StripNL(s) ==
    IF s = "" THEN s
    ELSE IF Char(s, 1) = "\n" THEN StripNL(SliceFrom(s, 1))
    ELSE IF Char(s, Len(s)) = "\n" THEN StripNL(DropLast(s))
    ELSE s

IsSpace(c) == c \in {" ", "\n", "\t", "\r"}

\* the largest element of a set of naturals, or 0
MaxOf(S) == IF S = {} THEN 0 ELSE CHOOSE i \in S : \A j \in S : j <= i

\* the smallest element of a set of naturals, or 0
MinOf(S) == IF S = {} THEN 0 ELSE CHOOSE i \in S : \A j \in S : i <= j

\* the index of the last character of s[:n] that is not white space, or 0
LastNonSpace(s, n) == MaxOf({i \in 1..n : ~IsSpace(Char(s, i))})

\* the index of the last character of s[:n] that is white space, or 0
LastSpace(s, n) == MaxOf({i \in 1..n : IsSpace(Char(s, i))})

\* s.split() is not empty
HasToken(s) == LastNonSpace(s, Len(s)) # 0

\* s.split()[-1], for a string that has a token
LastToken(s) ==
    LET e == LastNonSpace(s, Len(s))
    IN  Slice(s, LastSpace(s, e), e)

\* the index of the first "\n" of s (1-based), or 0
FindNL(s) == MinOf({i \in 1..Len(s) : Char(s, i) = "\n"})

\* the lines a text file yields when iterated, line ends kept
RECURSIVE ReadLines(_)
ReadLines(s) ==
    IF s = "" THEN << >>
    ELSE LET n == FindNL(s)
         IN  IF n = 0 THEN <<s>>
             ELSE <<Slice(s, 0, n)>> \o ReadLines(SliceFrom(s, n))

\* ''.join(seq)
RECURSIVE Join(_)
Join(seq) == IF seq = << >> THEN "" ELSE Head(seq) \o Join(Tail(seq))

\* the characters from "-" (45) to "Z" (90), and the letters "a" (97) to "z" (122)
AsciiUpper == "-./0123456789:;<=>?@ABCDEFGHIJKLMNOPQRSTUVWXYZ"

AsciiLower == "abcdefghijklmnopqrstuvwxyz"

\* the code point of a character of a path
Ord(c) ==
    IF c = " " THEN 32
    ELSE IF c = "_" THEN 95
    ELSE IF \E i \in 1..Len(AsciiUpper) : Char(AsciiUpper, i) = c
         THEN 44 + (CHOOSE i \in 1..Len(AsciiUpper) : Char(AsciiUpper, i) = c)
    ELSE 96 + (CHOOSE i \in 1..Len(AsciiLower) : Char(AsciiLower, i) = c)

\* a < b in the string order of Python
RECURSIVE StrLess(_, _)
StrLess(a, b) ==
    IF b = "" THEN FALSE
    ELSE IF a = "" THEN TRUE
    ELSE IF Char(a, 1) = Char(b, 1) THEN StrLess(SliceFrom(a, 1), SliceFrom(b, 1))
    ELSE Ord(Char(a, 1)) < Ord(Char(b, 1))

\* seq with x inserted before the first element greater than x
RECURSIVE Insert(_, _)
Insert(seq, x) ==
    IF seq = << >> THEN <<x>>
    ELSE IF StrLess(x, Head(seq)) THEN <<x>> \o seq
    ELSE <<Head(seq)>> \o Insert(Tail(seq), x)

\* sorted(seq)
RECURSIVE Sorted(_)
Sorted(seq) ==
    IF seq = << >> THEN << >>
    ELSE Insert(Sorted(SubSeq(seq, 1, Len(seq) - 1)), seq[Len(seq)])

\* the elements of a sequence
Range(seq) == {seq[i] : i \in 1..Len(seq)}

\* the strings of a finite set, in sorted order
RECURSIVE SortedOf(_)
SortedOf(S) ==
    IF S = {} THEN << >>
    ELSE LET x == CHOOSE y \in S : \A z \in S : z = y \/ StrLess(z, y)
         IN  SortedOf(S \ {x}) \o <<x>>

(***************************************************************************)
(* The environment: paths, contents, digests, clock readings.              *)
(***************************************************************************)
\* the repository root, get_lgit_directory()
Root == "/r"

\* the files the user works with, relative to the root; "d" is a directory
Paths == {"a.txt", "d/a.txt"}

Dirs == {".", "d"}

\* a file outside the repository root, named by its absolute path
Outside == {"/o.txt"}

\* every file of the file system the commands can name
Files == Paths \cup Outside

\* the contents the user writes
Contents == {"hello", "world"}

\* sha1(content.encode()).hexdigest()
Sha1(c) ==
    CASE c = "hello" -> "aaf4c61ddcc5e8a2dabede0f3b482cd9aea9434d"
      [] c = "world" -> "7c211433f02071597741e6ff5a8ea34789abbf43"
      [] c = "lgit"  -> "1b719ca915de762edbba088065b7501d2997ba81"
      [] c = ""      -> "da39a3ee5e6b4b0d3255bfef95601890afd80709"

\* clock readings, in half seconds after 2026-10-31 12:00:00; a file written
\* by the n-th edit has modification time n
Instants == {0, 1}

Digits == "0123456789"

TwoDigits(n) == Char(Digits, (n \div 10) + 1) \o Char(Digits, (n % 10) + 1)

\* strftime('%Y%m%d%H%M%S')
Strftime(t) == "202610311200" \o TwoDigits(t \div 2)

\* strftime('%Y%m%d%H%M%S.%f')
StrftimeMicro(t) == Strftime(t) \o (IF t % 2 = 0 THEN ".000000" ELSE ".500000")

Authors == {"bob", ""}

Messages == {"first", "second"}

\* the login name written by init
LogName == "alice"

\* str(None)
PyNone == "None"

\* the 40 spaces of a path that was never committed
Sentinel == "                                        "

(***************************************************************************)
(* The state.                                                              *)
(***************************************************************************)
VARIABLES
    wt,         \* working tree: path -> [exists, content, mtime, readable]
    indexFile,  \* the text of .lgit/index
    objects,    \* .lgit/objects: "<2 hex>/<38 hex>" -> blob content
    commits,    \* .lgit/commits: key -> text of the commit record
    snapshots,  \* .lgit/snapshots: key -> text of the snapshot
    config,     \* the text of .lgit/config
    out,        \* what the last step was and what it reported
    nEdits,     \* working-tree edits so far
    nCmds,      \* lgit commands so far
    indexDict,  \* the dictionary held between get_index_dict and
                \* update_index_file, where the two are run on their own
    running,    \* the invocations in flight where two run at once: what
                \* each is doing and the index file as it read it
    fs          \* the directories that hold a .lgit directory, the index and
                \* config files of those that are not the root of the
                \* working tree, and the directory init last ran in

vars == <<wt, indexFile, objects, commits, snapshots, config, out, nEdits, nCmds,
          indexDict, running, fs>>

\* the two processes that may run a command at the same time
Procs == {"first", "second"}

\* a process that runs nothing
Idle == [pc |-> "idle", cmd |-> "", arg |-> "", text |-> "", buffer |-> "",
         staged |-> << >>, notStaged |-> << >>, reread |-> ""]

repo == <<indexFile, objects, commits, snapshots, config>>

\* the directories a command is run in: the root of the file system, the
\* root of the working tree and its subdirectory
Cwds == {"/", Root, Root \o "/d"}

OtherDirs == Cwds \ {Root}

\* init has been run in the root of the working tree and nowhere else
RootOnly ==
    [initCwd |-> Root, lgit |-> {Root},
     index |-> [d \in OtherDirs |-> ""], config |-> [d \in OtherDirs |-> ""]]

NoFile == [exists |-> FALSE, content |-> "", mtime |-> 0, readable |-> FALSE]

\* the record of a step: the command, how it ended ("ok", "exit" for a call
\* of exit(), "error" for an exception printed by main), the paths named in
\* the fatal messages it printed, and the three lists status prints
Report(cmd, result, fatal, staged, notStaged, untracked) ==
    [cmd |-> cmd, result |-> result, fatal |-> fatal,
     staged |-> staged, notStaged |-> notStaged, untracked |-> untracked]

Plain(cmd, result, fatal) == Report(cmd, result, fatal, << >>, << >>, << >>)

(***************************************************************************)
(* The file system as the code sees it.                                    *)
(***************************************************************************)
\* abspath(path), from the root
AbsPath(path) ==
    IF path = "." THEN Root
    ELSE IF StartsWith(path, "/") THEN path
    ELSE Root \o "/" \o path

\* the working-tree name of a path given absolute or relative to the root
FsKey(path) ==
    IF path = Root THEN "."
    ELSE IF StartsWith(path, Root \o "//") THEN SliceFrom(path, Len(Root) + 2)
    ELSE IF StartsWith(path, Root \o "/") THEN SliceFrom(path, Len(Root) + 1)
    ELSE path

\* isfile(path)
IsFile(w, path) == FsKey(path) \in Files /\ w[FsKey(path)].exists

\* isdir(path)
IsDir(path) == FsKey(path) \in Dirs

\* open(path, 'r') succeeds
CanRead(w, path) == IsFile(w, path) /\ w[FsKey(path)].readable

\* hash_sha1(path): None when the file is missing or unreadable
hash_sha1(w, path) ==
    IF CanRead(w, path) THEN Sha1(w[FsKey(path)].content) ELSE PyNone

\* get_content(path)
get_content(w, path) ==
    IF CanRead(w, path) THEN w[FsKey(path)].content ELSE PyNone

\* get_timestamp(path), for an existing file
get_timestamp(w, path) == Strftime(w[FsKey(path)].mtime)

\* formatting an index line for path raises: getmtime of a missing file
\* (FileNotFoundError) or open of a directory (IsADirectoryError)
InfoRaises(w, path) == ~IsFile(w, path)

\* path lies under directory dir (both relative to the root)
Under(p, dir) == dir = "." \/ StartsWith(p, dir \o "/")

\* join(root, file) as os.walk(dir) builds it
Joined(dir, p) ==
    IF dir = "." THEN "./" \o p
    ELSE IF dir = Root THEN Root \o "/" \o p
    ELSE p

\* get_all_files(dir), sorted as every caller sorts it
get_all_files(w, dir) ==
    SortedOf({AbsPath(p) : p \in {q \in Paths :
        /\ w[q].exists
        /\ Under(q, FsKey(dir))
        /\ ~Contains(Joined(dir, q), ".lgit/")
        /\ ~Contains(Joined(dir, q), "lgit.py")}})

(***************************************************************************)
(* The index: a dictionary in insertion order, key -> line.                *)
(***************************************************************************)
DictHas(d, k) == \E i \in 1..Len(d) : d[i].key = k

DictGet(d, k) == d[CHOOSE i \in 1..Len(d) : d[i].key = k].line

\* d[k] = v: a present key keeps its place, a new key goes last
DictSet(d, k, v) ==
    IF DictHas(d, k)
    THEN [i \in 1..Len(d) |-> IF d[i].key = k THEN [key |-> k, line |-> v] ELSE d[i]]
    ELSE Append(d, [key |-> k, line |-> v])

\* del d[k]
DictDel(d, k) == SelectSeq(d, LAMBDA e : e.key # k)

\* the dictionary built from the lines of the index file, in order
RECURSIVE DictOfLines(_, _)
DictOfLines(lines, d) ==
    IF lines = << >> THEN d
    ELSE DictOfLines(Tail(lines),
                     DictSet(d, LastToken(DropLast(Head(lines))), Head(lines)))

\* get_index_dict(): ok is FALSE when a line has no field, where
\* line[:-1].split()[-1] raises IndexError
get_index_dict(text) ==
    LET lines == ReadLines(text)
    IN  IF \E i \in 1..Len(lines) : ~HasToken(DropLast(lines[i]))
        THEN [ok |-> FALSE, index |-> << >>]
        ELSE [ok |-> TRUE, index |-> DictOfLines(lines, << >>)]

\* the text update_index_file(index) writes
update_index_file(index) == Join([i \in 1..Len(index) |-> index[i].line])

\* '{} {} {} {} {}\n'.format(...)
FormatLine(ts, working, staged, committed, key) ==
    ts \o " " \o working \o " " \o staged \o " " \o committed \o " " \o key \o "\n"

\* the fields of an index line, by the byte offsets the code uses
WorkingOf(line) == Slice(line, 15, 55)

StagedOf(line) == Slice(line, 56, 96)

CommittedOf(line) == Slice(line, 97, 137)

(***************************************************************************)
(* add                                                                     *)
(***************************************************************************)
\* the files named by arguments that are not "." : exit() at the first
\* argument that is neither a file nor a directory
RECURSIVE FilesOfArgs(_, _, _)
FilesOfArgs(w, paths, files) ==
    IF paths = << >> THEN [ok |-> TRUE, files |-> files, fatal |-> << >>]
    ELSE LET path == Head(paths)
         IN  IF IsFile(w, path) /\ ~Contains(path, ".lgit/")
             THEN FilesOfArgs(w, Tail(paths), Append(files, AbsPath(path)))
             ELSE IF IsDir(path)
             THEN FilesOfArgs(w, Tail(paths), files \o get_all_files(w, path))
             ELSE [ok |-> FALSE, files |-> << >>, fatal |-> <<path>>]

\* get_file_paths(paths)
get_file_paths(w, paths) ==
    IF "." \in Range(paths)
    THEN [ok |-> TRUE, files |-> Sorted(get_all_files(w, ".")), fatal |-> << >>]
    ELSE LET r == FilesOfArgs(w, paths, << >>)
         IN  [ok |-> r.ok, files |-> Sorted(r.files), fatal |-> r.fatal]

\* the name of a blob under .lgit/objects
ObjPath(sha) == Slice(sha, 0, 2) \o "/" \o SliceFrom(sha, 2)

\* add_file(path, sha): the blob is (re)written with the file's content
add_file(w, objs, path, sha) ==
    (ObjPath(sha) :> get_content(w, path)) @@ objs

\* the first key of the index that the path ends with, or 0
FirstSuffixKey(index, path) ==
    IF \E i \in 1..Len(index) : EndsWith(path, index[i].key)
    THEN CHOOSE i \in 1..Len(index) :
            /\ EndsWith(path, index[i].key)
            /\ \A j \in 1..(i - 1) : ~EndsWith(path, index[j].key)
    ELSE 0

\* change_info(index, path, file)
change_info(w, index, path, file) ==
    DictSet(index, file,
            FormatLine(get_timestamp(w, path), hash_sha1(w, path), hash_sha1(w, path),
                       CommittedOf(DictGet(index, file)), file))

\* create_info(path, key)
create_info(w, path, key) ==
    FormatLine(get_timestamp(w, path), hash_sha1(w, path), hash_sha1(w, path),
               Sentinel, key)

\* one round of the loop of lgit_add, for a readable file
AddOne(w, index, path) ==
    LET m == FirstSuffixKey(index, path)
        key == Remove(path, Root \o "/")
    IN  IF m # 0 THEN change_info(w, index, path, index[m].key)
        ELSE DictSet(index, key, create_info(w, path, key))

\* the loop of lgit_add: an unreadable file makes add_file raise TypeError
\* (sha is None), which ends the command before the index is written
RECURSIVE AddLoop(_, _, _, _)
AddLoop(w, files, index, objs) ==
    IF files = << >> THEN [ok |-> TRUE, index |-> index, objects |-> objs]
    ELSE LET path == Head(files)
             sha == hash_sha1(w, path)
         IN  IF sha = PyNone
             THEN [ok |-> FALSE, index |-> index, objects |-> objs]
             ELSE AddLoop(w, Tail(files), AddOne(w, index, path),
                          add_file(w, objs, path, sha))

ArgNames == Paths \cup Dirs

\* the argument lists of add and rm: one name or two
ArgLists == {<<p>> : p \in ArgNames} \cup {<<p, q>> : p, q \in ArgNames}

\* lgit_add(paths), as a function of the state it reads
AddResult(w, text, objs, paths) ==
    LET loaded == get_index_dict(text)
        found == get_file_paths(w, paths)
        done == AddLoop(w, found.files, loaded.index, objs)
    IN  IF ~loaded.ok
        THEN [result |-> "error", fatal |-> << >>, text |-> text, objects |-> objs]
        ELSE IF ~found.ok
        THEN [result |-> "exit", fatal |-> found.fatal, text |-> text, objects |-> objs]
        ELSE IF ~done.ok
        THEN [result |-> "error", fatal |-> << >>, text |-> text,
              objects |-> done.objects]
        ELSE [result |-> "ok", fatal |-> << >>, text |-> update_index_file(done.index),
              objects |-> done.objects]

lgit_add(paths) ==
    /\ nCmds < MaxCmds
    /\ nCmds' = nCmds + 1
    /\ \E r \in {AddResult(wt, indexFile, objects, paths)} :
          /\ indexFile' = r.text
          /\ objects' = r.objects
          /\ out' = Plain("add", r.result, r.fatal)
    /\ UNCHANGED <<wt, commits, snapshots, config, nEdits, indexDict, running, fs>>

(***************************************************************************)
(* rm                                                                      *)
(***************************************************************************)
\* get_delete_key(index, path)
get_delete_key(index, path) ==
    IF \E i \in 1..Len(index) : EndsWith(path, index[i].key)
    THEN Remove(path, Root \o "/")
    ELSE PyNone

\* the loop of lgit_remove: "exit" at an argument that matches nothing,
\* "error" when del index[key] raises KeyError (after the unlink)
RECURSIVE RemoveLoop(_, _, _, _)
RemoveLoop(w, paths, index, fatal) ==
    IF paths = << >> THEN [result |-> "ok", index |-> index, wt |-> w, fatal |-> fatal]
    ELSE LET path == Head(paths)
             key == get_delete_key(index, AbsPath(path))
             unlinked == [w EXCEPT ![FsKey(path)] = NoFile]
         IN  IF IsFile(w, path) /\ key # PyNone
             THEN IF DictHas(index, key)
                  THEN RemoveLoop(unlinked, Tail(paths), DictDel(index, key), fatal)
                  ELSE [result |-> "error", index |-> index, wt |-> unlinked,
                        fatal |-> fatal]
             ELSE IF IsDir(path)
             THEN RemoveLoop(w, Tail(paths), index, Append(fatal, path))
             ELSE [result |-> "exit", index |-> index, wt |-> w,
                   fatal |-> Append(fatal, path)]

\* lgit_remove(paths), as a function of the state it reads
RemoveResult(w, text, paths) ==
    LET loaded == get_index_dict(text)
        done == RemoveLoop(w, paths, loaded.index, << >>)
    IN  IF ~loaded.ok
        THEN [result |-> "error", fatal |-> << >>, text |-> text, wt |-> w]
        ELSE [result |-> done.result, fatal |-> done.fatal, wt |-> done.wt,
              text |-> IF done.result = "ok" THEN update_index_file(done.index)
                       ELSE text]

lgit_remove(paths) ==
    /\ nCmds < MaxCmds
    /\ nCmds' = nCmds + 1
    /\ \E r \in {RemoveResult(wt, indexFile, paths)} :
          /\ wt' = r.wt
          /\ indexFile' = r.text
          /\ out' = Plain("rm", r.result, r.fatal)
    /\ UNCHANGED <<objects, commits, snapshots, config, nEdits, indexDict, running, fs>>

(***************************************************************************)
(* config, commit                                                          *)
(***************************************************************************)
lgit_config(author) ==
    /\ nCmds < MaxCmds
    /\ nCmds' = nCmds + 1
    /\ config' = author \o "\n"
    /\ out' = Plain("config", "ok", << >>)
    /\ UNCHANGED <<wt, indexFile, objects, commits, snapshots, nEdits, indexDict,
                   running, fs>>

\* a commit record that names the login name, not the author of the config
CommitText_login(author, tst_2, message) ==
    LogName \o "\n" \o tst_2 \o "\n\n" \o message \o "\n"

\* the text create_commit_file writes
CommitText(author, tst_2, message) ==
    author \o "\n" \o tst_2 \o "\n\n" \o message \o "\n"

\* the loop of create_snap_file over index.items(): each round rewrites the
\* entry and then appends one line to the snapshot; get_timestamp raises
\* for a missing file, which ends the command
RECURSIVE SnapLoop(_, _, _, _)
SnapLoop(w, items, index, snap) ==
    IF items = << >> THEN [ok |-> TRUE, index |-> index, snap |-> snap]
    ELSE LET path == Head(items).key
             state == Head(items).line
             file == Root \o "/" \o path
         IN  IF InfoRaises(w, file)
             THEN [ok |-> FALSE, index |-> index, snap |-> snap]
             ELSE SnapLoop(w, Tail(items),
                           DictSet(index, path,
                                   FormatLine(get_timestamp(w, file), hash_sha1(w, file),
                                              StagedOf(state), StagedOf(state), path)),
                           Append(snap, StagedOf(state) \o " " \o path \o "\n"))

\* a commit that records the content each file has now, not the staged one
create_snap_file_current(w, index) ==
    IF \E i \in 1..Len(index) : InfoRaises(w, Root \o "/" \o index[i].key)
    THEN [ok |-> FALSE, index |-> index, snap |-> << >>]
    ELSE [ok |-> TRUE,
          index |-> [i \in 1..Len(index) |->
                       [key |-> index[i].key,
                        line |-> FormatLine(
                            get_timestamp(w, Root \o "/" \o index[i].key),
                            hash_sha1(w, Root \o "/" \o index[i].key),
                            hash_sha1(w, Root \o "/" \o index[i].key),
                            hash_sha1(w, Root \o "/" \o index[i].key),
                            index[i].key)]],
          snap |-> [i \in 1..Len(index) |->
                       hash_sha1(w, Root \o "/" \o index[i].key) \o " "
                           \o index[i].key \o "\n"]]

\* create_snap_file(index, tst_1)
create_snap_file(w, index) == SnapLoop(w, index, index, << >>)

\* the snapshot files after lines were appended ('a+') to the one named key
AppendSnap(snaps, key, lines) ==
    IF lines = << >> THEN snaps
    ELSE (key :> ((IF key \in DOMAIN snaps THEN snaps[key] ELSE "") \o Join(lines)))
         @@ snaps

\* an author check that lets every author through
AuthorMissing_never(author) == FALSE

\* not author
AuthorMissing(author) == author = ""

\* lgit_commit(message) at clock reading t, as a function of the state it reads
CommitResult(w, text, cfg, coms, snaps, message, t) ==
    LET tst_1 == StrftimeMicro(t)
        tst_2 == Strftime(t)
        author == StripNL(cfg)
        written == (tst_1 :> CommitText(author, tst_2, message)) @@ coms
        loaded == get_index_dict(text)
        done == create_snap_file(w, loaded.index)
    IN  IF AuthorMissing(author)
        THEN [result |-> "exit", commits |-> coms, snapshots |-> snaps, text |-> text]
        ELSE IF ~loaded.ok
        THEN [result |-> "error", commits |-> written, snapshots |-> snaps,
              text |-> text]
        ELSE [result |-> IF done.ok THEN "ok" ELSE "error",
              commits |-> written,
              snapshots |-> AppendSnap(snaps, tst_1, done.snap),
              text |-> IF done.ok THEN update_index_file(done.index) ELSE text]

lgit_commit(message, t) ==
    /\ nCmds < MaxCmds
    /\ nCmds' = nCmds + 1
    /\ \E r \in {CommitResult(wt, indexFile, config, commits, snapshots, message, t)} :
          /\ commits' = r.commits
          /\ snapshots' = r.snapshots
          /\ indexFile' = r.text
          /\ out' = Plain("commit", r.result, << >>)
    /\ UNCHANGED <<wt, objects, config, nEdits, indexDict, running, fs>>

(***************************************************************************)
(* status                                                                  *)
(***************************************************************************)
\* a path whose working-tree file is read as another file's would be: the
\* staged field compared with the working field, not the committed one
IsToBeCommitted_working(state) == StagedOf(state) # WorkingOf(state)

\* state[56:96] != state[97:137]
IsToBeCommitted(state) == StagedOf(state) # CommittedOf(state)

\* state[56:96] != hash_sha1(file)
IsNotStaged(w, state, file) == StagedOf(state) # hash_sha1(w, file)

\* the loop of get_status_paths_list over index.items()
RECURSIVE StatusLoop(_, _, _, _, _)
StatusLoop(w, items, index, to_be_committed, not_staged_for_commit) ==
    IF items = << >>
    THEN [ok |-> TRUE, index |-> index,
          staged |-> to_be_committed, notStaged |-> not_staged_for_commit]
    ELSE LET path == Head(items).key
             state == Head(items).line
             file == Root \o "/" \o path
         IN  IF InfoRaises(w, file)
             THEN [ok |-> FALSE, index |-> index, staged |-> << >>, notStaged |-> << >>]
             ELSE StatusLoop(w, Tail(items),
                    DictSet(index, path,
                            FormatLine(get_timestamp(w, file), hash_sha1(w, file),
                                       StagedOf(state), CommittedOf(state), path)),
                    IF IsToBeCommitted(state)
                    THEN Append(to_be_committed, path) ELSE to_be_committed,
                    IF IsNotStaged(w, state, file)
                    THEN Append(not_staged_for_commit, path) ELSE not_staged_for_commit)

\* get_status_paths_list()
get_status_paths_list(w, index) ==
    LET r == StatusLoop(w, index, index, << >>, << >>)
    IN  [ok |-> r.ok, index |-> r.index,
         staged |-> Sorted(r.staged), notStaged |-> Sorted(r.notStaged)]

\* get_untracked_files()
get_untracked_files(w, index) ==
    LET all == get_all_files(w, Root)
        untracked == SelectSeq(all, LAMBDA path :
                        \A i \in 1..Len(index) : ~EndsWith(path, index[i].key))
    IN  Sorted([i \in 1..Len(untracked) |-> Remove(untracked[i], Root \o "/")])

\* lgit_status(), as a function of the state it reads: the lists of
\* get_status_paths_list are printed before get_untracked_files reads the
\* index again
StatusResult(w, text) ==
    LET loaded == get_index_dict(text)
        lists == get_status_paths_list(w, loaded.index)
        written == update_index_file(lists.index)
        reloaded == get_index_dict(written)
    IN  IF ~loaded.ok \/ ~lists.ok
        THEN [text |-> text, out |-> Plain("status", "error", << >>)]
        ELSE IF ~reloaded.ok
        THEN [text |-> written,
              out |-> Report("status", "error", << >>, lists.staged, lists.notStaged,
                             << >>)]
        ELSE [text |-> written,
              out |-> Report("status", "ok", << >>, lists.staged, lists.notStaged,
                             get_untracked_files(w, reloaded.index))]

lgit_status ==
    /\ nCmds < MaxCmds
    /\ nCmds' = nCmds + 1
    /\ \E r \in {StatusResult(wt, indexFile)} :
          /\ indexFile' = r.text
          /\ out' = r.out
    /\ UNCHANGED <<wt, objects, commits, snapshots, config, nEdits, indexDict, running, fs>>

(***************************************************************************)
(* init                                                                    *)
(***************************************************************************)
\* dirname(path), for an absolute path without a trailing slash
dirname(path) ==
    LET cut == MaxOf({i \in 1..Len(path) : Char(path, i) = "/"})
    IN  IF cut <= 1 THEN "/" ELSE Slice(path, 0, cut - 1)

\* get_lgit_directory(), run in the directory path: lgit is the set of the
\* directories that hold a .lgit directory; the loop ends at "/" without
\* looking there
RECURSIVE get_lgit_directory(_, _)
get_lgit_directory(lgit, path) ==
    IF path = "/" THEN PyNone
    ELSE IF path \in lgit THEN path
    ELSE get_lgit_directory(lgit, dirname(path))

\* create_repo(), run in cwd: create_dir leaves the directories that exist
\* alone, create_file empties index and config, and write_logname_config
\* writes the login name into the config of the repository
\* get_lgit_directory finds now; where it finds none, None + '/.lgit/config'
\* raises TypeError
create_repo(cwd) ==
    LET made == fs.lgit \cup {cwd}
        found == get_lgit_directory(made, cwd)
        text == IF found = PyNone THEN "" ELSE LogName \o "\n"
    IN  /\ fs' = [initCwd |-> cwd, lgit |-> made,
                  index |-> [d \in OtherDirs |-> IF d = cwd THEN "" ELSE fs.index[d]],
                  config |-> [d \in OtherDirs |->
                                 IF d = cwd THEN text ELSE fs.config[d]]]
        /\ IF cwd = Root
           THEN indexFile' = "" /\ config' = text
           ELSE UNCHANGED <<indexFile, config>>
        /\ out' = Plain("init", IF found = PyNone THEN "error" ELSE "ok", << >>)
        /\ UNCHANGED <<objects, commits, snapshots>>

\* init that runs create_repo without looking for a repository first
lgit_init_again(cwd) ==
    /\ nCmds < MaxCmds
    /\ nCmds' = nCmds + 1
    /\ create_repo(cwd)
    /\ UNCHANGED <<wt, nEdits, indexDict, running>>

\* lgit_init(), run in cwd
lgit_init(cwd) ==
    /\ nCmds < MaxCmds
    /\ nCmds' = nCmds + 1
    /\ IF get_lgit_directory(fs.lgit, cwd) # PyNone
       THEN /\ out' = Plain("init", "ok", << >>)
            /\ fs' = [fs EXCEPT !.initCwd = cwd]
            /\ UNCHANGED repo
       ELSE create_repo(cwd)
    /\ UNCHANGED <<wt, nEdits, indexDict, running>>

\* main(), for a command other than init run in a directory where
\* get_lgit_directory finds no repository: print_repo_exist_error()
print_repo_exist_error(cwd, cmd) ==
    /\ nCmds < MaxCmds
    /\ get_lgit_directory(fs.lgit, cwd) = PyNone
    /\ nCmds' = nCmds + 1
    /\ out' = Plain(cmd, "norepo", << >>)
    /\ UNCHANGED <<wt, repo, nEdits, indexDict, running, fs>>

(***************************************************************************)
(* The user's edits of the working tree.                                   *)
(***************************************************************************)
WriteFile(p, c) ==
    /\ nEdits < MaxEdits
    /\ nEdits' = nEdits + 1
    /\ ~wt[p].exists \/ wt[p].readable
    /\ wt' = [wt EXCEPT ![p] = [exists |-> TRUE, content |-> c, mtime |-> nEdits',
                                readable |-> TRUE]]
    /\ out' = Plain("write", "ok", << >>)
    /\ UNCHANGED <<repo, nCmds, indexDict, running, fs>>

DeleteFile(p) ==
    /\ nEdits < MaxEdits
    /\ nEdits' = nEdits + 1
    /\ wt[p].exists
    /\ wt' = [wt EXCEPT ![p] = NoFile]
    /\ out' = Plain("delete", "ok", << >>)
    /\ UNCHANGED <<repo, nCmds, indexDict, running, fs>>

Chmod(p) ==
    /\ nEdits < MaxEdits
    /\ nEdits' = nEdits + 1
    /\ wt[p].exists
    /\ wt' = [wt EXCEPT ![p].readable = ~wt[p].readable]
    /\ out' = Plain("chmod", "ok", << >>)
    /\ UNCHANGED <<repo, nCmds, indexDict, running, fs>>

(***************************************************************************)
(* The specification: the repository right after init, then any commands   *)
(* and edits, one at a time.                                               *)
(***************************************************************************)
Init ==
    /\ wt = [p \in Files |-> NoFile]
    /\ indexFile = ""
    /\ objects = [k \in {} |-> ""]
    /\ commits = [k \in {} |-> ""]
    /\ snapshots = [k \in {} |-> ""]
    /\ config = LogName \o "\n"
    /\ out = Plain("init", "ok", << >>)
    /\ nEdits = 0
    /\ nCmds = 0
    /\ indexDict = << >>
    /\ running = [i \in Procs |-> Idle]
    /\ fs = RootOnly

Next ==
    \/ \E paths \in ArgLists : lgit_add(paths)
    \/ \E paths \in ArgLists : lgit_remove(paths)
    \/ \E author \in Authors : lgit_config(author)
    \/ \E message \in Messages, t \in Instants : lgit_commit(message, t)
    \/ lgit_status
    \/ lgit_init(Root)
    \/ \E p \in Paths, c \in Contents : WriteFile(p, c)
    \/ \E p \in Paths : DeleteFile(p)
    \/ \E p \in Paths : Chmod(p)

Spec == Init /\ [][Next]_vars

(***************************************************************************)
(* A second specification: init was run in a directory that already holds  *)
(* the user's files, and a file outside the root exists beside it; the     *)
(* commands then run while files lose or regain their read permission or   *)
(* are deleted.                                                            *)
(***************************************************************************)
\* what the files hold when the repository is created
TreeContent(p) == IF p = "d/a.txt" THEN "world" ELSE "hello"

\* the argument lists of add here: one name, or two different files
TreeArgLists ==
    {<<p>> : p \in Files \cup {"."}}
        \cup ({<<p, q>> : p, q \in Files} \ {<<p, p>> : p \in Files})

InitTree ==
    /\ wt = [p \in Files |-> [exists |-> TRUE, content |-> TreeContent(p),
                              mtime |-> 0, readable |-> TRUE]]
    /\ indexFile = ""
    /\ objects = [k \in {} |-> ""]
    /\ commits = [k \in {} |-> ""]
    /\ snapshots = [k \in {} |-> ""]
    /\ config = LogName \o "\n"
    /\ out = Plain("init", "ok", << >>)
    /\ nEdits = 0
    /\ nCmds = 0
    /\ indexDict = << >>
    /\ running = [i \in Procs |-> Idle]
    /\ fs = RootOnly

NextTree ==
    \/ \E paths \in TreeArgLists : lgit_add(paths)
    \/ \E paths \in ArgLists : lgit_remove(paths)
    \/ \E message \in Messages, t \in Instants : lgit_commit(message, t)
    \/ lgit_status
    \/ \E p \in Paths : DeleteFile(p)
    \/ \E p \in Paths : Chmod(p)

SpecTree == InitTree /\ [][NextTree]_vars

(***************************************************************************)
(* A specification with an add that runs while the user writes the file    *)
(* it adds.  lgit_add looks at the file five times, each on its own:       *)
(* hash_sha1 for the name of the blob, get_content for its bytes, then     *)
(* get_timestamp and hash_sha1 twice for the index line.  The write lands  *)
(* after the k-th look.                                                    *)
(***************************************************************************)
\* the working tree as the i-th look finds it
Seen(w, p, c, m, k, i) ==
    IF i <= k THEN w
    ELSE [w EXCEPT ![p] = [exists |-> TRUE, content |-> c, mtime |-> m,
                           readable |-> TRUE]]

\* lgit_add([p]) with the write of c into p after the k-th look
RacedResult(w, text, objs, p, c, m, k) ==
    LET loaded == get_index_dict(text)
        index == loaded.index
        path == AbsPath(p)
        sha == hash_sha1(Seen(w, p, c, m, k, 1), path)
        hit == FirstSuffixKey(index, path)
        key == Remove(path, Root \o "/")
        Line(committed, file) ==
            FormatLine(get_timestamp(Seen(w, p, c, m, k, 3), path),
                       hash_sha1(Seen(w, p, c, m, k, 4), path),
                       hash_sha1(Seen(w, p, c, m, k, 5), path),
                       committed, file)
        changed == IF hit # 0
                   THEN DictSet(index, index[hit].key,
                                Line(CommittedOf(index[hit].line), index[hit].key))
                   ELSE DictSet(index, key, Line(Sentinel, key))
    IN  IF ~loaded.ok
        THEN [result |-> "error", text |-> text, objects |-> objs]
        ELSE [result |-> "ok", text |-> update_index_file(changed),
              objects |-> add_file(Seen(w, p, c, m, k, 2), objs, path, sha)]

lgit_add_raced(p, c, k) ==
    /\ nCmds < MaxCmds
    /\ nEdits < MaxEdits
    /\ CanRead(wt, p)
    /\ nCmds' = nCmds + 1
    /\ nEdits' = nEdits + 1
    /\ wt' = Seen(wt, p, c, nEdits', 0, 1)
    /\ \E r \in {RacedResult(wt, indexFile, objects, p, c, nEdits', k)} :
          /\ indexFile' = r.text
          /\ objects' = r.objects
          /\ out' = Plain("add", r.result, << >>)
    /\ UNCHANGED <<commits, snapshots, config, indexDict, running, fs>>

NextRace ==
    \/ Next
    \/ \E p \in Paths, c \in Contents, k \in 1..4 : lgit_add_raced(p, c, k)

SpecRace == Init /\ [][NextRace]_vars

(***************************************************************************)
(* A further specification: the persistence of the index on its own.  A      *)
(* dictionary as the commands build it is written by update_index_file and *)
(* read back by get_index_dict.                                            *)
(***************************************************************************)
\* the digests of the contents
Digests == {Sha1(c) : c \in Contents}

\* the keys add can create: path.replace(root + '/', ''), one with a blank
IndexKeys == Paths \cup {"my a.txt"}

\* the lines create_info, change_info, status and commit write for a key
EntryLines(key) ==
    {FormatLine(Strftime(0), w, s, c, key) :
        w \in Digests, s \in Digests, c \in Digests \cup {Sentinel}}

Entries == UNION {{[key |-> k, line |-> l] : l \in EntryLines(k)} : k \in IndexKeys}

\* the dictionaries of at most MaxEntries entries, one entry per key
EntryDicts ==
    UNION {{d \in [1..n -> Entries] :
                \A i, j \in 1..n : d[i].key = d[j].key => i = j} : n \in 0..MaxEntries}

InitIndex ==
    /\ wt = [p \in Files |-> NoFile]
    /\ indexFile = ""
    /\ objects = [k \in {} |-> ""]
    /\ commits = [k \in {} |-> ""]
    /\ snapshots = [k \in {} |-> ""]
    /\ config = LogName \o "\n"
    /\ out = Plain("init", "ok", << >>)
    /\ nEdits = 0
    /\ nCmds = 0
    /\ indexDict \in EntryDicts
    /\ running = [i \in Procs |-> Idle]
    /\ fs = RootOnly

\* update_index_file(index)
SaveIndex ==
    /\ out.cmd = "init"
    /\ indexFile' = update_index_file(indexDict)
    /\ out' = Plain("save", "ok", << >>)
    /\ UNCHANGED <<wt, objects, commits, snapshots, config, nEdits, nCmds,
                   indexDict, running, fs>>

\* index = get_index_dict()
LoadIndex ==
    /\ out.cmd = "save"
    /\ \E r \in {get_index_dict(indexFile)} :
          /\ indexDict' = r.index
          /\ out' = Plain("load", IF r.ok THEN "ok" ELSE "error", << >>)
    /\ UNCHANGED <<wt, indexFile, objects, commits, snapshots, config, nEdits, nCmds,
                   running, fs>>

NextIndex == SaveIndex \/ LoadIndex

SpecIndex == InitIndex /\ [][NextIndex]_vars

(***************************************************************************)
(* A specification that starts where this run of the commands ends:        *)
(*   add a.txt; chmod 000 a.txt; status; chmod 644 a.txt; add a.txt        *)
(* The status writes the line of the unreadable file 36 bytes short, and   *)
(* the add that follows copies the end of that line, its newline included, *)
(* into the committed_hash field: the index file now holds a second line   *)
(* with the path alone.  The commands then run on this file.               *)
(***************************************************************************)
\* the files of that run; unreadable is the set of files without permission
BrokenTree(unreadable) ==
    [p \in Files |->
        IF p \in Paths
        THEN [exists |-> TRUE, content |-> TreeContent(p), mtime |-> 0,
              readable |-> p \notin unreadable]
        ELSE NoFile]

\* what the run leaves in the index file and the object store
BrokenRepo ==
    LET added == AddResult(BrokenTree({}), "", [k \in {} |-> ""], <<"a.txt">>)
        seen == StatusResult(BrokenTree({"a.txt"}), added.text)
    IN  AddResult(BrokenTree({}), seen.text, added.objects, <<"a.txt">>)

InitBroken ==
    /\ wt = BrokenTree({})
    /\ indexFile = BrokenRepo.text
    /\ objects = BrokenRepo.objects
    /\ commits = [k \in {} |-> ""]
    /\ snapshots = [k \in {} |-> ""]
    /\ config = LogName \o "\n"
    /\ out = Plain("add", BrokenRepo.result, << >>)
    /\ nEdits = 0
    /\ nCmds = 0
    /\ indexDict = << >>
    /\ running = [i \in Procs |-> Idle]
    /\ fs = RootOnly

NextBroken ==
    \/ \E paths \in ArgLists : lgit_add(paths)
    \/ \E paths \in ArgLists : lgit_remove(paths)
    \/ \E author \in Authors : lgit_config(author)
    \/ \E message \in Messages, t \in Instants : lgit_commit(message, t)
    \/ lgit_status

SpecBroken == InitBroken /\ [][NextBroken]_vars

(***************************************************************************)
(* A specification with two processes that run add and status at the same  *)
(* time on the populated tree.  Nothing locks the repository, so every     *)
(* access of a command to a file of it is a step of its own: the open of   *)
(* get_index_dict, each read of its for loop up to the read that finds the *)
(* end of the file, the open(.., 'w+') of make_copy and of                 *)
(* update_index_file, which empties the file, the write that follows, and  *)
(* the reads lgit_status makes again in get_untracked_files.               *)
(***************************************************************************)
\* the index file a command would work from if it read the file again when
\* it builds what it writes
LoadedText_fresh(i) == indexFile

\* the index file as process i read it when its command started
LoadedText(i) == running[i].text

\* file.write(text) on a file opened 'w+': the bytes go to offset 0 of the
\* file as it is now, and what another process wrote beyond them stays
WriteAtStart(file, text) ==
    IF Len(file) > Len(text)
    THEN text \o SubSeq(file, Len(text) + 1, Len(file))
    ELSE text

\* a read of a file at the offset where the reads before it ended: the
\* bytes the file holds beyond them now, none at the end of the file
ReadOn(file, sofar) ==
    IF Len(file) > Len(sofar)
    THEN SubSeq(file, Len(sofar) + 1, Len(file))
    ELSE ""

\* the one file an add of a file path stores
AddedFile(i) == Head(get_file_paths(wt, <<running[i].arg>>).files)

\* the blob add_file writes for it
BlobOf(i) == ObjPath(hash_sha1(wt, AddedFile(i)))

\* index = get_index_dict(), the first statement of lgit_add: the open
BeginAdd(i, p) ==
    /\ nCmds < MaxCmds
    /\ running[i].pc \in {"idle", "done"}
    /\ nCmds' = nCmds + 1
    /\ running' = [running EXCEPT
                      ![i] = [Idle EXCEPT !.pc = "reading", !.cmd = "add", !.arg = p]]
    /\ out' = Plain("begin", "ok", << >>)
    /\ UNCHANGED <<wt, repo, nEdits, indexDict, fs>>

\* index = get_index_dict(), the first statement of get_status_paths_list:
\* the open
BeginStatus(i) ==
    /\ nCmds < MaxCmds
    /\ running[i].pc \in {"idle", "done"}
    /\ nCmds' = nCmds + 1
    /\ running' = [running EXCEPT
                      ![i] = [Idle EXCEPT !.pc = "reading", !.cmd = "status"]]
    /\ out' = Plain("begin", "ok", << >>)
    /\ UNCHANGED <<wt, repo, nEdits, indexDict, fs>>

\* for line in file, in get_index_dict: one read; the loop ends at the read
\* that returns nothing
ReadIndex(i) ==
    /\ running[i].pc = "reading"
    /\ \E chunk \in {ReadOn(indexFile, running[i].text)} :
          running' = IF chunk = ""
                     THEN [running EXCEPT ![i].pc = "loaded"]
                     ELSE [running EXCEPT ![i].text = running[i].text \o chunk]
    /\ UNCHANGED <<wt, repo, out, nEdits, nCmds, indexDict, fs>>

\* lgit_add up to the open(dest, 'w+') of make_copy, which leaves the blob
\* empty; a command that ends in exit() or in an exception stops here and
\* opens nothing
OpenBlob(i) ==
    /\ running[i].pc = "loaded"
    /\ running[i].cmd = "add"
    /\ \E r \in {AddResult(wt, LoadedText(i), objects, <<running[i].arg>>)} :
          IF r.result = "ok"
          THEN /\ objects' = (BlobOf(i) :> "") @@ objects
               /\ running' = [running EXCEPT ![i].pc = "copying"]
               /\ out' = out
          ELSE /\ objects' = objects
               /\ running' = [running EXCEPT ![i].pc = "done"]
               /\ out' = Plain("add", r.result, r.fatal)
    /\ UNCHANGED <<wt, indexFile, commits, snapshots, config, nEdits, nCmds, indexDict, fs>>

\* file.write(get_content(src)) of make_copy, and the rest of the loop of
\* lgit_add, which fills the dictionary
WriteBlob(i) ==
    /\ running[i].pc = "copying"
    /\ objects' = (BlobOf(i) :> WriteAtStart(objects[BlobOf(i)],
                                              get_content(wt, AddedFile(i))))
                    @@ objects
    /\ running' = [running EXCEPT
                      ![i].pc = "computed",
                      ![i].buffer = AddResult(wt, LoadedText(i), objects,
                                              <<running[i].arg>>).text]
    /\ UNCHANGED <<wt, indexFile, commits, snapshots, config, out, nEdits, nCmds,
                   indexDict, fs>>

\* the loop of get_status_paths_list over index.items(); an exception ends
\* the command before it opens the index file
RunStatus(i) ==
    /\ running[i].pc = "loaded"
    /\ running[i].cmd = "status"
    /\ \E loaded \in {get_index_dict(LoadedText(i))} :
       \E lists \in {get_status_paths_list(wt, loaded.index)} :
          IF loaded.ok /\ lists.ok
          THEN /\ running' = [running EXCEPT
                                 ![i].pc = "computed",
                                 ![i].buffer = update_index_file(lists.index),
                                 ![i].staged = lists.staged,
                                 ![i].notStaged = lists.notStaged]
               /\ out' = out
          ELSE /\ running' = [running EXCEPT ![i].pc = "done"]
               /\ out' = Plain("status", "error", << >>)
    /\ UNCHANGED <<wt, repo, nEdits, nCmds, indexDict, fs>>

\* update_index_file: open(.., 'w+') empties the index file
OpenIndex(i) ==
    /\ running[i].pc = "computed"
    /\ indexFile' = ""
    /\ running' = [running EXCEPT ![i].pc = "opened"]
    /\ UNCHANGED <<wt, objects, commits, snapshots, config, out, nEdits, nCmds,
                   indexDict, fs>>

\* update_index_file: file.write(''.join(index.values())) and the close;
\* this is the last statement of lgit_add, and get_status_paths_list returns
\* its two lists after it
WriteIndex(i) ==
    /\ running[i].pc = "opened"
    /\ indexFile' = WriteAtStart(indexFile, running[i].buffer)
    /\ IF running[i].cmd = "add"
       THEN /\ running' = [running EXCEPT ![i].pc = "done"]
            /\ out' = Plain("add", "ok", << >>)
       ELSE /\ running' = [running EXCEPT ![i].pc = "rereading"]
            /\ out' = out
    /\ UNCHANGED <<wt, objects, commits, snapshots, config, nEdits, nCmds, indexDict, fs>>

\* get_untracked_files: tracked_files = get_index_dict().keys(), one read
\* of its for loop; the loop ends at the read that returns nothing
RereadIndex(i) ==
    /\ running[i].pc = "rereading"
    /\ \E chunk \in {ReadOn(indexFile, running[i].reread)} :
          running' = IF chunk = ""
                     THEN [running EXCEPT ![i].pc = "reloaded"]
                     ELSE [running EXCEPT ![i].reread = running[i].reread \o chunk]
    /\ UNCHANGED <<wt, repo, out, nEdits, nCmds, indexDict, fs>>

\* the end of lgit_status: the rest of get_untracked_files, with the three
\* lists printed
FinishStatus(i) ==
    /\ running[i].pc = "reloaded"
    /\ \E reloaded \in {get_index_dict(running[i].reread)} :
          out' = IF reloaded.ok
                 THEN Report("status", "ok", << >>, running[i].staged,
                             running[i].notStaged,
                             get_untracked_files(wt, reloaded.index))
                 ELSE Report("status", "error", << >>, running[i].staged,
                             running[i].notStaged, << >>)
    /\ running' = [running EXCEPT ![i].pc = "done"]
    /\ UNCHANGED <<wt, repo, nEdits, nCmds, indexDict, fs>>

InitConc ==
    /\ wt = BrokenTree({})
    /\ indexFile = ""
    /\ objects = [k \in {} |-> ""]
    /\ commits = [k \in {} |-> ""]
    /\ snapshots = [k \in {} |-> ""]
    /\ config = LogName \o "\n"
    /\ out = Plain("init", "ok", << >>)
    /\ nEdits = 0
    /\ nCmds = 0
    /\ indexDict = << >>
    /\ running = [i \in Procs |-> Idle]
    /\ fs = RootOnly

NextConc ==
    \/ \E i \in Procs, p \in Files : BeginAdd(i, p)
    \/ \E i \in Procs : BeginStatus(i)
    \/ \E i \in Procs : ReadIndex(i)
    \/ \E i \in Procs : OpenBlob(i)
    \/ \E i \in Procs : WriteBlob(i)
    \/ \E i \in Procs : RunStatus(i)
    \/ \E i \in Procs : OpenIndex(i)
    \/ \E i \in Procs : WriteIndex(i)
    \/ \E i \in Procs : RereadIndex(i)
    \/ \E i \in Procs : FinishStatus(i)

SpecConc == InitConc /\ [][NextConc]_vars

(***************************************************************************)
(* A specification of init: the tree is populated and either no directory  *)
(* holds a repository yet, or the root of the working tree does, with the  *)
(* author init or a config command left there.  init runs in the root of   *)
(* the file system, in the root of the working tree and in its             *)
(* subdirectory; the other commands run in the root of the working tree    *)
(* where main finds a repository, and report that there is none in a       *)
(* directory where it does not.                                            *)
(***************************************************************************)
InitInit ==
    /\ wt = BrokenTree({})
    /\ indexFile = ""
    /\ objects = [k \in {} |-> ""]
    /\ commits = [k \in {} |-> ""]
    /\ snapshots = [k \in {} |-> ""]
    /\ \/ fs = [RootOnly EXCEPT !.lgit = {}] /\ config = ""
       \/ fs = RootOnly /\ config \in {LogName \o "\n", "bob\n"}
    /\ out = Plain("init", "ok", << >>)
    /\ nEdits = 0
    /\ nCmds = 0
    /\ indexDict = << >>
    /\ running = [i \in Procs |-> Idle]

\* main() run in the root of the working tree finds the repository
InRepository == get_lgit_directory(fs.lgit, Root) # PyNone

NextInit ==
    \/ \E cwd \in Cwds : lgit_init(cwd)
    \/ \E cwd \in Cwds, cmd \in {"add", "config", "commit", "status"} :
          print_repo_exist_error(cwd, cmd)
    \/ InRepository /\ \E p \in Paths : lgit_add(<<p>>)
    \/ InRepository /\ \E author \in Authors : lgit_config(author)
    \/ /\ InRepository
       /\ \E message \in Messages, t \in Instants : lgit_commit(message, t)
    \/ InRepository /\ lgit_status

SpecInit == InitInit /\ [][NextInit]_vars

(***************************************************************************)
(* Reading the persisted state, for the properties below.                  *)
(***************************************************************************)
\* the index a command would load from the text of the index file
IndexOf(text) == get_index_dict(text).index

KeysOf(index) == {index[i].key : i \in 1..Len(index)}

StagedIn(index, k) == StagedOf(DictGet(index, k))

CommittedIn(index, k) == CommittedOf(DictGet(index, k))

WorkingIn(index, k) == WorkingOf(DictGet(index, k))

\* a 40-character digest of one of the contents
IsDigest(h) == \E c \in Contents : h = Sha1(c)

(***************************************************************************)
(* C1 -- staged_hash names a stored blob                                   *)
(***************************************************************************)
\* C1: in every state, the staged_hash of every index entry names a blob
\* that is present in the object store under <first 2 hex>/<remaining 38>.
C1_StagedBlobStored ==
    \A i \in 1..Len(IndexOf(indexFile)) :
        ObjPath(StagedOf(IndexOf(indexFile)[i].line)) \in DOMAIN objects

(***************************************************************************)
(* C2 -- add touches only the entry of its own path                        *)
(***************************************************************************)
\* C2: an add of one path p that succeeds leaves an entry keyed by p, and
\* leaves every entry keyed by another path as it was; the keys afterwards
\* are the keys before plus p.
C2_AddTouchesOwnEntry ==
    [][\A p \in Paths :
          (lgit_add(<<p>>) /\ out'.result = "ok")
          => LET old == IndexOf(indexFile)
                 new == IndexOf(indexFile')
             IN  /\ KeysOf(new) = KeysOf(old) \cup {p}
                 /\ \A k \in KeysOf(old) \ {p} : DictGet(new, k) = DictGet(old, k)]_vars

(***************************************************************************)
(* C3 -- what add writes into the entry                                    *)
(***************************************************************************)
\* C3: after a successful add of one readable file p whose content has
\* digest h, the entry of p has working_hash = staged_hash = h, and its
\* committed_hash is the sentinel if p had no entry, else what it was.
C3_AddSetsHashes ==
    [][\A p \in Paths :
          (lgit_add(<<p>>) /\ out'.result = "ok")
          => LET old == IndexOf(indexFile)
                 new == IndexOf(indexFile')
                 h == Sha1(wt[p].content)
             IN  /\ DictHas(new, p)
                 /\ WorkingIn(new, p) = h
                 /\ StagedIn(new, p) = h
                 /\ CommittedIn(new, p) =
                       IF DictHas(old, p) THEN CommittedIn(old, p) ELSE Sentinel]_vars

(***************************************************************************)
(* C4 -- the snapshot of a commit is complete                              *)
(***************************************************************************)
\* the lines a complete snapshot of the index holds
SnapshotLinesOf(index) ==
    {StagedOf(index[i].line) \o " " \o index[i].key \o "\n" : i \in 1..Len(index)}

\* C4: a commit that writes a commit record writes, under the same key, a
\* snapshot with exactly one "<staged_hash> <path>" line for each entry the
\* index had, and afterwards the committed_hash of each such entry is the
\* staged_hash it had; also when a tracked file is missing.
C4_SnapshotComplete ==
    [][\A message \in Messages, t \in Instants :
          (lgit_commit(message, t) /\ out'.result # "exit")
          => LET old == IndexOf(indexFile)
                 new == IndexOf(indexFile')
                 key == StrftimeMicro(t)
                 lines == IF key \in DOMAIN snapshots'
                          THEN ReadLines(snapshots'[key]) ELSE << >>
             IN  /\ key \in DOMAIN commits'
                 /\ Len(lines) = Len(old)
                 /\ Range(lines) = SnapshotLinesOf(old)
                 /\ \A k \in KeysOf(old) :
                       DictHas(new, k) /\ CommittedIn(new, k) = StagedIn(old, k)]_vars

(***************************************************************************)
(* C5 -- rm pairs the unlink with the removal from the index               *)
(***************************************************************************)
\* C5: when an rm ends, normally or not, a path's file was unlinked by it
\* exactly if the path's entry was deleted from the persisted index.
C5_RmPairsEffects ==
    [][out'.cmd = "rm"
       => \A p \in Paths :
             (wt[p].exists /\ ~wt'[p].exists)
             <=> (DictHas(IndexOf(indexFile), p) /\ ~DictHas(IndexOf(indexFile'), p))]_vars

(***************************************************************************)
(* C6 -- the two predicates of status                                      *)
(***************************************************************************)
\* the digest of the content status can read at a tracked path; a file it
\* cannot read has none and differs from every staged_hash
CurrentHash(k) ==
    IF k \in Paths /\ wt[k].exists /\ wt[k].readable
    THEN Sha1(wt[k].content) ELSE PyNone

\* C6: a status that completes lists a path as staged-for-commit exactly if
\* its staged_hash differs from its committed_hash, and as not-staged exactly
\* if its staged_hash differs from the digest of the current working-tree
\* content, each path at most once in a list and each predicate on its own.
C6_StatusPredicates ==
    [][(out'.cmd = "status" /\ out'.result = "ok")
       => LET old == IndexOf(indexFile)
          IN  /\ Range(out'.staged) =
                    {k \in KeysOf(old) : StagedIn(old, k) # CommittedIn(old, k)}
              /\ Range(out'.notStaged) =
                    {k \in KeysOf(old) : StagedIn(old, k) # CurrentHash(k)}
              /\ Len(out'.staged) = Cardinality(Range(out'.staged))
              /\ Len(out'.notStaged) = Cardinality(Range(out'.notStaged))]_vars

\* status has run on a file that was added, committed and then edited
\* without a new add: the path is listed as not-staged only
C6_Witness ==
    /\ out.cmd = "status"
    /\ out.result = "ok"
    /\ DOMAIN commits # {}
    /\ \E k \in KeysOf(IndexOf(indexFile)) :
          /\ IsDigest(StagedIn(IndexOf(indexFile), k))
          /\ StagedIn(IndexOf(indexFile), k) = CommittedIn(IndexOf(indexFile), k)
          /\ IsDigest(WorkingIn(IndexOf(indexFile), k))
          /\ WorkingIn(IndexOf(indexFile), k) # StagedIn(IndexOf(indexFile), k)
          /\ k \in Range(out.notStaged)
          /\ k \notin Range(out.staged)

(***************************************************************************)
(* C7 -- commit without an author                                          *)
(***************************************************************************)
\* C7: a commit run while the author in the config is empty ends by exit()
\* and changes nothing: no commit record, no snapshot, the index as it was.
C7_NoAuthorNoEffect ==
    [][(out'.cmd = "commit" /\ StripNL(config) = "")
       => /\ out'.result = "exit"
          /\ UNCHANGED <<commits, snapshots, indexFile, objects, config, wt>>]_vars

\* a commit was refused for want of an author while a file was staged
C7_Witness ==
    /\ out.cmd = "commit"
    /\ out.result = "exit"
    /\ StripNL(config) = ""
    /\ Len(IndexOf(indexFile)) > 0
    /\ DOMAIN commits = {}

(***************************************************************************)
(* C8 -- commit keys are distinct                                          *)
(***************************************************************************)
\* C8: a commit that writes a commit record writes it under a key no earlier
\* commit has, so every earlier commit record and snapshot stays as it was.
C8_DistinctKeys ==
    [][(out'.cmd = "commit" /\ out'.result # "exit")
       => /\ DOMAIN commits' # DOMAIN commits
          /\ \A k \in DOMAIN commits : k \in DOMAIN commits' /\ commits'[k] = commits[k]
          /\ \A k \in DOMAIN snapshots :
                k \in DOMAIN snapshots' /\ snapshots'[k] = snapshots[k]]_vars

(***************************************************************************)
(* C9 -- where committed_hash comes from                                   *)
(***************************************************************************)
\* C9: no step gives an entry a committed_hash other than the sentinel, the
\* committed_hash the entry had, or, in a commit, the staged_hash it had; so
\* every committed_hash is the sentinel or a staged_hash of an earlier commit.
C9_CommittedFromStaged ==
    [][LET old == IndexOf(indexFile)
           new == IndexOf(indexFile')
       IN  \A k \in KeysOf(new) :
              \/ CommittedIn(new, k) = Sentinel
              \/ DictHas(old, k) /\ CommittedIn(new, k) = CommittedIn(old, k)
              \/ /\ out'.cmd = "commit"
                 /\ DictHas(old, k)
                 /\ CommittedIn(new, k) = StagedIn(old, k)]_vars

(***************************************************************************)
(* C10 -- status with a deleted or unreadable file                         *)
(***************************************************************************)
\* a tracked path whose file is missing or cannot be read
Lost(k) == ~(k \in Paths /\ wt[k].exists /\ wt[k].readable)

\* C10: a status run on a well-formed index in which some tracked file is
\* deleted or unreadable completes, classifies the other entries, and
\* rewrites the index: the entries keep their keys, staged and committed
\* hashes, and each readable file's working_hash is refreshed.
C10_StatusSurvivesLoss ==
    [][(/\ out'.cmd = "status"
        /\ \A k \in KeysOf(IndexOf(indexFile)) :
              /\ IsDigest(StagedIn(IndexOf(indexFile), k))
              /\ CommittedIn(IndexOf(indexFile), k) = Sentinel
                    \/ IsDigest(CommittedIn(IndexOf(indexFile), k))
        /\ \E k \in KeysOf(IndexOf(indexFile)) : Lost(k))
       => LET old == IndexOf(indexFile)
              new == IndexOf(indexFile')
          IN  /\ out'.result = "ok"
              /\ KeysOf(new) = KeysOf(old)
              /\ \A k \in KeysOf(old) :
                    /\ StagedIn(new, k) = StagedIn(old, k)
                    /\ CommittedIn(new, k) = CommittedIn(old, k)
                    /\ ~Lost(k) => WorkingIn(new, k) = CurrentHash(k)
                    /\ ~Lost(k) =>
                          (k \in Range(out'.staged)
                              <=> StagedIn(old, k) # CommittedIn(old, k))]_vars

(***************************************************************************)
(* C11 -- an unreadable file in an add batch                               *)
(***************************************************************************)
\* C11: an add of two files into an empty index, of which p can be read and
\* q cannot, skips q and goes on: the blob of p is stored, p gets an entry
\* whose staged_hash is the digest of p, and the index is written.
C11_AddSkipsUnreadable ==
    [][\A p, q \in Paths :
          (/\ p # q
           /\ indexFile = ""
           /\ CanRead(wt, p)
           /\ wt[q].exists /\ ~wt[q].readable
           /\ lgit_add(<<p, q>>))
          => /\ ObjPath(Sha1(wt[p].content)) \in DOMAIN objects'
             /\ DictHas(IndexOf(indexFile'), p)
             /\ StagedIn(IndexOf(indexFile'), p) = Sha1(wt[p].content)]_vars

(***************************************************************************)
(* C12 -- rm of a path that is not tracked                                 *)
(***************************************************************************)
\* every line of the index holds three 40-character fields as add, status
\* and commit write them for readable files
WellFormed(index) ==
    \A k \in KeysOf(index) :
        /\ IsDigest(WorkingIn(index, k))
        /\ IsDigest(StagedIn(index, k))
        /\ CommittedIn(index, k) = Sentinel \/ IsDigest(CommittedIn(index, k))

\* C12: an rm whose first argument is a file path with no entry in the
\* index reports the pathspec error and ends there: the file at that path,
\* if there is one, stays, and no later argument is unlinked or removed
\* from the index.
C12_RmPathspecAborts ==
    [][\A paths \in ArgLists :
          (/\ Head(paths) \in Paths
           /\ WellFormed(IndexOf(indexFile))
           /\ ~DictHas(IndexOf(indexFile), Head(paths))
           /\ lgit_remove(paths))
          => /\ out'.result = "exit"
             /\ out'.fatal = <<Head(paths)>>
             /\ wt' = wt
             /\ indexFile' = indexFile]_vars

(***************************************************************************)
(* C13 -- the untracked list of status                                     *)
(***************************************************************************)
\* C13: the untracked list a completed status prints is exactly the set of
\* working-tree files whose path is not the path of an index entry; a file
\* whose path only ends with a tracked path is in the list.
C13_UntrackedExact ==
    [][(out'.cmd = "status" /\ out'.result = "ok")
       => Range(out'.untracked) =
             {p \in Paths : wt[p].exists /\ ~DictHas(IndexOf(indexFile'), p)}]_vars

(***************************************************************************)
(* C14 -- add of a path outside the repository root                        *)
(***************************************************************************)
\* C14: an add with an argument that names a file outside the root reports
\* the pathspec error for it and ends by exit(): the index file is as it
\* was and no entry is keyed by the outside path.
C14_AddOutsideRejected ==
    [][\A paths \in TreeArgLists :
          (/\ \E i \in 1..Len(paths) : paths[i] \in Outside
           /\ lgit_add(paths))
          => /\ out'.result = "exit"
             /\ \E i \in 1..Len(paths) : paths[i] \in Outside /\ out'.fatal = <<paths[i]>>
             /\ indexFile' = indexFile
             /\ KeysOf(IndexOf(indexFile')) \cap Outside = {}]_vars

(***************************************************************************)
(* C15 -- add twice                                                        *)
(***************************************************************************)
\* C15: after an add of one readable file p, an add of p again with no edit
\* in between changes nothing: the index file and the blobs stay as the
\* first add left them.
C15_AddIdempotent ==
    [][\A p \in Paths :
          (CanRead(wt, p) /\ lgit_add(<<p>>))
          => LET again == AddResult(wt', indexFile', objects', <<p>>)
             IN  /\ again.text = indexFile'
                 /\ again.objects = objects']_vars

(***************************************************************************)
(* C16 -- the index file round-trips                                       *)
(***************************************************************************)
\* C16: loading the index file that a save has written gives back the
\* dictionary that was saved: the same keys in the same order, each with the
\* line it had, also for never-committed entries and paths with a blank.
C16_IndexRoundTrip ==
    [][out'.cmd = "load" => indexDict' = indexDict]_vars

(***************************************************************************)
(* C17 -- commit records and snapshots are paired                          *)
(***************************************************************************)
\* C17: in every state a commit record commits/<key> exists exactly if a
\* snapshot snapshots/<key> exists, also after a commit of an empty index
\* and after a commit that failed part-way.
C17_CommitSnapshotPaired ==
    DOMAIN commits = DOMAIN snapshots

(***************************************************************************)
(* C18 -- the object store is content-addressed and write-once             *)
(***************************************************************************)
\* C18: after every step each blob holds content whose sha1 is the name it
\* is stored under, and a blob that was there keeps its bytes; also when
\* the file is written between the looks of the add that stores it.
C18_ContentAddressed ==
    [][/\ \A o \in DOMAIN objects' : ObjPath(Sha1(objects'[o])) = o
       /\ \A o \in DOMAIN objects :
             o \in DOMAIN objects' /\ objects'[o] = objects[o]]_vars

(***************************************************************************)
(* C19 -- history is append-only                                           *)
(***************************************************************************)
\* C19: no step removes or changes a blob, a commit record or a snapshot
\* that exists, and an index entry disappears only in an rm.
C19_AppendOnly ==
    [][/\ \A o \in DOMAIN objects :
             o \in DOMAIN objects' /\ objects'[o] = objects[o]
       /\ \A k \in DOMAIN commits :
             k \in DOMAIN commits' /\ commits'[k] = commits[k]
       /\ \A k \in DOMAIN snapshots :
             k \in DOMAIN snapshots' /\ snapshots'[k] = snapshots[k]
       /\ \A k \in KeysOf(IndexOf(indexFile)) :
             DictHas(IndexOf(indexFile'), k) \/ out'.cmd = "rm"]_vars

(***************************************************************************)
(* C20 -- rm of a directory                                                *)
(***************************************************************************)
\* C20: an rm whose first argument is a directory refuses it and does
\* nothing else: it reports the directory, no file is unlinked, under the
\* directory or named by a later argument, and the index stays as it was.
C20_RmDirectoryFatal ==
    [][\A paths \in ArgLists :
          (/\ Head(paths) \in Dirs
           /\ WellFormed(IndexOf(indexFile))
           /\ lgit_remove(paths))
          => /\ out'.fatal # << >>
             /\ Head(out'.fatal) = Head(paths)
             /\ wt' = wt
             /\ indexFile' = indexFile]_vars

(***************************************************************************)
(* C21 -- the exit status of the fatal conditions                          *)
(***************************************************************************)
\* the exit status of the process for each way a command ends: exit() is
\* called without an argument, an exception is caught and printed by the
\* try around main(), and a normal return ends the script
ExitStatus(result) ==
    CASE result = "exit" -> 0
      [] result = "error" -> 0
      [] OTHER -> 0

\* C21: an add, rm or commit that reports a fatal condition (a pathspec
\* that matches nothing, a directory given to rm, no author at commit) ends
\* with a non-zero exit status.
C21_FatalExitsNonZero ==
    [][(out'.cmd \in {"add", "rm", "commit"}
        /\ (out'.result = "exit" \/ out'.fatal # << >>))
       => ExitStatus(out'.result) # 0]_vars

(***************************************************************************)
(* C22 -- a malformed line in the index file                               *)
(***************************************************************************)
\* the number of blank-separated fields of a line
FieldCount(line) ==
    Cardinality({i \in 1..Len(line) :
        ~IsSpace(Char(line, i)) /\ (i = 1 \/ IsSpace(Char(line, i - 1)))})

\* some line of the text has not the five fields of an entry, or the four
\* of one whose committed_hash is the blank sentinel
Malformed(text) ==
    \E i \in 1..Len(ReadLines(text)) : FieldCount(ReadLines(text)[i]) \notin {4, 5}

\* C22: a command that loads an index file with a malformed line ends in an
\* error and does not rewrite the index file.
C22_MalformedLineAborts ==
    [][(/\ Malformed(indexFile)
        /\ \/ out'.cmd \in {"add", "rm", "status"}
           \/ out'.cmd = "commit" /\ out'.result # "exit")
       => /\ out'.result = "error"
          /\ indexFile' = indexFile]_vars

(***************************************************************************)
(* C23 -- the author of a commit record                                    *)
(***************************************************************************)
\* the author line of a commit record
AuthorOf(text) == DropLast(Head(ReadLines(text)))

\* C23: config --author X leaves X in the config; a commit that writes a
\* commit record writes the author the config holds at that moment; and a
\* config step changes no commit record.
C23_CommitCarriesAuthor ==
    [][/\ out'.cmd = "config"
          => /\ commits' = commits
             /\ \A author \in Authors : lgit_config(author) => StripNL(config') = author
       /\ (out'.cmd = "commit" /\ out'.result # "exit")
          => \A message \in Messages, t \in Instants :
                lgit_commit(message, t)
                => /\ StrftimeMicro(t) \in DOMAIN commits'
                   /\ AuthorOf(commits'[StrftimeMicro(t)]) = StripNL(config)]_vars

\* a commit was made as bob, and the author was changed afterwards: the
\* commit record still names bob
C23_Witness ==
    /\ out.cmd = "config"
    /\ StripNL(config) # "bob"
    /\ \E k \in DOMAIN commits : AuthorOf(commits[k]) = "bob"

(***************************************************************************)
(* C24 -- what status leaves alone                                         *)
(***************************************************************************)
\* C24: a status keeps the set of tracked paths and the staged_hash and
\* committed_hash of every entry, and changes neither the object store,
\* the commit records, the snapshots nor the config.
C24_StatusFrame ==
    [][out'.cmd = "status"
       => LET old == IndexOf(indexFile)
              new == IndexOf(indexFile')
          IN  /\ KeysOf(new) = KeysOf(old)
              /\ \A k \in KeysOf(old) :
                    /\ StagedIn(new, k) = StagedIn(old, k)
                    /\ CommittedIn(new, k) = CommittedIn(old, k)
              /\ UNCHANGED <<objects, commits, snapshots, config>>]_vars

(***************************************************************************)
(* C25 -- a file edited between add and commit                             *)
(***************************************************************************)
\* the entry of k is as add wrote it and the file of k, readable, now holds
\* other content than the staged one
Edited(index, k) ==
    /\ IsDigest(StagedIn(index, k))
    /\ IsDigest(WorkingIn(index, k))
    /\ CommittedIn(index, k) = Sentinel \/ IsDigest(CommittedIn(index, k))
    /\ ~Lost(k)
    /\ StagedIn(index, k) # CurrentHash(k)

\* C25: a commit that completes while a tracked file holds other content
\* than the staged one writes the staged hash into the snapshot line of the
\* path and into its committed_hash, and the hash of the current content
\* into its working_hash; a status that then completes lists the path as
\* not staged, and not as staged for commit.
C25_EditedBetweenAddAndCommit ==
    [][/\ (out'.cmd = "commit" /\ out'.result = "ok")
          => \A message \in Messages, t \in Instants :
                lgit_commit(message, t)
                => \A k \in KeysOf(IndexOf(indexFile)) :
                      Edited(IndexOf(indexFile), k)
                      => /\ StrftimeMicro(t) \in DOMAIN snapshots'
                         /\ (StagedIn(IndexOf(indexFile), k) \o " " \o k \o "\n")
                               \in Range(ReadLines(snapshots'[StrftimeMicro(t)]))
                         /\ CommittedIn(IndexOf(indexFile'), k)
                               = StagedIn(IndexOf(indexFile), k)
                         /\ StagedIn(IndexOf(indexFile'), k)
                               = StagedIn(IndexOf(indexFile), k)
                         /\ WorkingIn(IndexOf(indexFile'), k) = CurrentHash(k)
       /\ (out.cmd = "commit" /\ out.result = "ok"
           /\ out'.cmd = "status" /\ out'.result = "ok")
          => \A k \in KeysOf(IndexOf(indexFile)) :
                Edited(IndexOf(indexFile), k)
                => /\ k \in Range(out'.notStaged)
                   /\ k \notin Range(out'.staged)]_vars

\* a commit has completed on a file that was added and then edited: the
\* snapshot and the committed_hash carry the staged hash, the working_hash
\* the hash of the edited content
C25_Witness ==
    /\ out.cmd = "commit"
    /\ out.result = "ok"
    /\ \E k \in KeysOf(IndexOf(indexFile)) :
          /\ Edited(IndexOf(indexFile), k)
          /\ CommittedIn(IndexOf(indexFile), k) = StagedIn(IndexOf(indexFile), k)
          /\ WorkingIn(IndexOf(indexFile), k) = CurrentHash(k)
          /\ \E key \in DOMAIN snapshots :
                (StagedIn(IndexOf(indexFile), k) \o " " \o k \o "\n")
                    \in Range(ReadLines(snapshots[key]))

(***************************************************************************)
(* C26 -- two commands at once can lose an update                          *)
(***************************************************************************)
\* C26: what an add writes to the index file is built from the file it read
\* when it started (its keys are the keys of that file and the path it
\* added), and its write replaces the file from the first byte on, so an
\* entry another command wrote in between is gone.
C26_SaveFromOwnLoad ==
    [][\A i \in Procs :
          /\ (running[i].cmd = "add" /\ running'[i].pc = "computed")
             => KeysOf(IndexOf(running'[i].buffer))
                   \subseteq KeysOf(IndexOf(running[i].text)) \cup {running[i].arg}
          /\ (running[i].cmd = "add" /\ running[i].pc = "opened"
              /\ running'[i].pc = "done")
             => SubSeq(indexFile', 1, Len(running[i].buffer)) = running[i].buffer]_vars

\* two adds of different paths have both ended well, each had read the
\* empty index file, both blobs are stored, and the index file holds the
\* entry of one of them only
C26_Witness ==
    /\ \A i \in Procs :
          /\ running[i].pc = "done"
          /\ running[i].cmd = "add"
          /\ running[i].text = ""
          /\ running[i].buffer # ""
          /\ ObjPath(Sha1(wt[running[i].arg].content)) \in DOMAIN objects
    /\ running["first"].arg # running["second"].arg
    /\ \E i \in Procs :
          /\ indexFile = running[i].buffer
          /\ KeysOf(IndexOf(indexFile)) = {running[i].arg}
          /\ StagedIn(IndexOf(indexFile), running[i].arg)
                = Sha1(wt[running[i].arg].content)

(***************************************************************************)
(* C27 -- status twice in a row                                            *)
(***************************************************************************)
\* C27: with the working tree as it is, a status run right after a status
\* writes the same index file and prints the same three lists as the first
\* one did.
C27_StatusIdempotent ==
    [][out'.cmd = "status"
       => StatusResult(wt', indexFile') = [text |-> indexFile', out |-> out']]_vars

(***************************************************************************)
(* C28 -- init where a repository already exists                           *)
(***************************************************************************)
\* the directory d is cwd or an ancestor of it
IsAbove(d, cwd) == d = cwd \/ d = "/" \/ StartsWith(cwd, d \o "/")

\* C28: init run in a directory that holds a repository, or below one that
\* does, leaves the index file, config, the object store, the commit
\* records and the snapshots of that repository as they were.
C28_InitKeepsRepository ==
    [][out'.cmd = "init"
       => \A d \in fs.lgit :
             IsAbove(d, fs'.initCwd)
             => IF d = Root
                THEN UNCHANGED <<indexFile, config, objects, commits, snapshots>>
                ELSE fs'.index[d] = fs.index[d] /\ fs'.config[d] = fs.config[d]]_vars

\* init has just run in the subdirectory of a working tree whose root holds
\* a repository with a staged file, a stored blob and an author other than
\* the login name, and it made no repository of its own
C28_Witness ==
    /\ out.cmd = "init"
    /\ fs.initCwd = Root \o "/d"
    /\ fs.lgit = {Root}
    /\ indexFile # ""
    /\ DOMAIN objects # {}
    /\ config = "bob\n"

====
